---- MODULE Spec2Model ----
(***************************************************************************)
(* Model of NPSProcessor (src/NPS_CODE/nps_processor.py): getcode,         *)
(* preprocess_data and the chunked labeling pipeline run_in_chunks ->      *)
(* classify_responses -> process_classifications -> save_results, with the *)
(* rule cascade of process_classifications translated statement by         *)
(* statement.                                                              *)
(*                                                                         *)
(* Representation.  A DataFrame is a sequence of rows; a row is a         *)
(* function from column name to value.  Classifier scores are fixed-point  *)
(* hundredths (0..100), so the source's "> 0.95" reads "> 95" here; the    *)
(* 0/1 flags the code stores with .astype(int) are the integers 0 and 1.   *)
(* A cell of the text column is <<s>> for a str s and <<>> for None (the    *)
(* SQL NULL of the COALESCE of line 59); str.contains(case=False) and      *)
(* str.strip() are computed character by character.  Strings are over the  *)
(* characters up to U+00FF.                                                *)
(***************************************************************************)
EXTENDS Integers, Sequences, FiniteSets, TLC

VARIABLES
    warehouse,           \* the results the next getcode() calls will return, in order
    nps_data,            \* self.nps_data: its columns and its rows
    attrs,               \* the attributes set on self after __init__
    nps_data_qa,         \* self.nps_data_qa: the rows to label (preprocess_data)
    classifier,          \* per row to label: what self.classifier does on that row's call
    labels,              \* the label taxonomy handed to run_in_chunks
    chunk_size,          \* self.chunk_size
    incremental,         \* self.incremental
    pc,                  \* where the caller is: between calls, or inside run_in_chunks
    start,               \* loop variable of run_in_chunks
    run,                 \* how many times run_in_chunks has been entered
    invocations,         \* how many times the caller enters run_in_chunks
    detailed_scores_df,  \* self.detailed_scores_df
    qa_data,             \* self.qa_data
    final_df,            \* self.final_df
    final_nps_op,        \* the destination table 'final_nps_op'
    calls,               \* texts handed to self.classifier by the last classify_responses
    outputs,             \* per run, the final_df of every chunk whose save_results ran
    batches,             \* per run, self.nps_data_qa when run_in_chunks was entered
    error                \* the exception the last call raised and the method it
                         \* was raised in, or NoError

vars == <<warehouse, nps_data, attrs, nps_data_qa, classifier, labels, chunk_size,
          incremental, pc, start, run, invocations, detailed_scores_df, qa_data,
          final_df, final_nps_op, calls, outputs, batches, error>>

(***************************************************************************)
(* Bounds of the model.                                                    *)
(***************************************************************************)
MaxRows == 2
MaxRuns == 2

(***************************************************************************)
(* The label taxonomy (src/main.py).                                       *)
(***************************************************************************)
Labels ==
    { "lack of vitamin c in customer plan benefits",
      "lack of Paediatric care in customer plan benefits",
      "Lack of medical benefits in customer plan",
      "lack of typhoid drugs", "attitude of nurses", "attitude of doctors",
      "cleanliness of hosptials", "medication quality", "Front desk related",
      "attitude of receptionist", "place hygeine", "quality of building",
      "cleanliness", "customer visiting the hospital", "clinic related",
      "lack of female coworkers", "call center agents", "response to phone calls",
      "phone calls related", "waiting for doctors", "long queues in hospital",
      "delaying in getting test results", "Unavailable drug for pick-up at pharmacy",
      "medication pickup related", "customer confusion about the benefits",
      "lack of communication on changing providers on plan",
      "hospitals near the customer city", "internet work issue", "app dysfunction",
      "waiting time", "time related", "access related", "doctor related",
      "nurse related", "delivery related", "customer service", "delay",
      "medication, treatment, or drug related" }

(***************************************************************************)
(* Strings: str.strip(), str.contains(pat, case=False), ', '.join.         *)
(***************************************************************************)
\* The characters str.strip() removes: those with str.isspace(), up to U+00FF
\* (tab, line feed, vertical tab, form feed, carriage return, U+001C..U+001F,
\* space, U+0085, U+00A0).
Whitespace ==
    {" ", "\t", "\n", "\r", "\f", "", "", "", "", "", "", " "}

LowerChar(c) ==
    CASE c = "A" -> "a" [] c = "B" -> "b" [] c = "C" -> "c" [] c = "D" -> "d"
      [] c = "E" -> "e" [] c = "F" -> "f" [] c = "G" -> "g" [] c = "H" -> "h"
      [] c = "I" -> "i" [] c = "J" -> "j" [] c = "K" -> "k" [] c = "L" -> "l"
      [] c = "M" -> "m" [] c = "N" -> "n" [] c = "O" -> "o" [] c = "P" -> "p"
      [] c = "Q" -> "q" [] c = "R" -> "r" [] c = "S" -> "s" [] c = "T" -> "t"
      [] c = "U" -> "u" [] c = "V" -> "v" [] c = "W" -> "w" [] c = "X" -> "x"
      [] c = "Y" -> "y" [] c = "Z" -> "z" [] OTHER -> c

RECURSIVE Lower(_)
Lower(s) ==
    IF Len(s) = 0 THEN ""
    ELSE LowerChar(SubSeq(s, 1, 1)) \o Lower(SubSeq(s, 2, Len(s)))

RECURSIVE LStrip(_)
LStrip(s) ==
    IF Len(s) > 0 /\ SubSeq(s, 1, 1) \in Whitespace
    THEN LStrip(SubSeq(s, 2, Len(s))) ELSE s

RECURSIVE RStrip(_)
RStrip(s) ==
    IF Len(s) > 0 /\ SubSeq(s, Len(s), Len(s)) \in Whitespace
    THEN RStrip(SubSeq(s, 1, Len(s) - 1)) ELSE s

Strip(s) == RStrip(LStrip(s))

\* Series.str.contains(pat, case=False, na=False) for a pattern with no regex
\* metacharacter: a case-insensitive substring test.
Contains(text, pat) ==
    LET t == Lower(text)
        p == Lower(pat)
    IN  \E i \in 1..(Len(t) - Len(p) + 1) : SubSeq(t, i, i + Len(p) - 1) = p

RECURSIVE Join(_)
Join(names) ==
    IF Len(names) = 0 THEN ""
    ELSE IF Len(names) = 1 THEN names[1]
    ELSE names[1] \o ", " \o Join(Tail(names))

(***************************************************************************)
(* The response texts the specifications draw their inputs from, and the   *)
(* keywords of the text rules (lines 169-212).  Which keywords occur in    *)
(* which of these texts is computed once, with Contains, and looked up.    *)
(***************************************************************************)
\* The third is a vertical tab followed by U+001F.  The texts of the inputs
\* keep to characters below U+0080.
BlankTexts == {" \n", "", ""}

ChunkTexts ==
    {"Long delay at the hospital", "Customer service was rude", "ok thanks"}

\* One text per keyword (in another case, or inside a longer word), a text
\* with none, near misses, and texts with several keywords.
FlagTexts ==
    { "ok thanks", "Customer Service", "mosquitoes", "During my visit", "gym",
      "doctors", "doctor", "Nurses", "dentist", "staff", "massage", "ambience",
      "welcome environment", "unclean", "facilities", "empathy", "Hospital",
      "treatment", "Delayed", "computerized process", "barcode", "Approved!",
      "timelineness", "black", "gym customer service",
      "during my visit to customer service",
      "The doctors were rude and I waited 2 hours" }

\* The texts that are also tried with two labels raised at once.
PairTexts ==
    { "ok thanks", "Delayed", "gym customer service",
      "The doctors were rude and I waited 2 hours" }

ModelTexts == BlankTexts \cup ChunkTexts \cup FlagTexts

Keywords ==
    { "customer service", "mosquitoes", "during my visit", "gym", "doctors",
      "nurse", "dentist", "staff", "massage", "ambience", "welcome environment",
      "clean", "facilities", "empathy", "hospital", "treatment", "delay",
      "computerized process", "code", "approved", "Timelineness", "lack" }

KeywordsIn == [t \in ModelTexts |-> {p \in Keywords : Contains(t, p)}]

\* Contains(text, pat), looked up when the pair is in the table.
Mentions(text, pat) ==
    IF text \in ModelTexts /\ pat \in Keywords
    THEN pat \in KeywordsIn[text]
    ELSE Contains(text, pat)

(***************************************************************************)
(* DataFrame helpers.  A frame is a sequence of rows; its columns are the  *)
(* keys of its rows, and pd.DataFrame([]) has no column at all.            *)
(***************************************************************************)
\* The cells of the text column.
None == <<>>
Str(s) == <<s>>
IsNone(v) == Len(v) = 0
StrOf(v) == v[1]

Columns(df) == IF Len(df) = 0 THEN {} ELSE DOMAIN df[1]

\* A frame built row by row, as an explicit sequence.
Rows(f) == f \o <<>>

\* df[c] = v on one row: adds the column or overwrites it in place.
Set(r, c, v) == (c :> v) @@ r

\* df.loc[mask, c] = v on one row.
Loc(r, mask, c, v) == IF mask THEN Set(r, c, v) ELSE r

\* (df[c] > th).astype(int) on one row; th in hundredths.
Gt(r, c, th) == IF r[c] > th THEN 1 ELSE 0

\* (df[c] == 1).astype(int) on one row.
Eq1(r, c) == IF r[c] = 1 THEN 1 ELSE 0

\* a | b | ... over 0/1 integers.
OrAll(bits) == IF \E i \in DOMAIN bits : bits[i] = 1 THEN 1 ELSE 0

\* a & b over 0/1 integers.
And2(a, b) == IF a = 1 /\ b = 1 THEN 1 ELSE 0

\* df['CUSTOMER_RESPONSE'].str.contains(pat, case=False, na=False) on one row.
\* na=False: a None cell does not match.
TextHas(r, pat) ==
    /\ ~IsNone(r["CUSTOMER_RESPONSE"])
    /\ Mentions(StrOf(r["CUSTOMER_RESPONSE"]), pat)

(***************************************************************************)
(* process_classifications, lines 119-164: the threshold flags.            *)
(***************************************************************************)
HealthBenefitsCoverage(r) ==
    Set(r, "Health_benefits_coverage",
        OrAll(<< Gt(r, "lack of vitamin c in customer plan benefits", 70),
                 Gt(r, "lack of Paediatric care in customer plan benefits", 90),
                 Gt(r, "Lack of medical benefits in customer plan", 90),
                 Gt(r, "lack of typhoid drugs", 90) >>))

ProviderQuality(r) ==
    Set(r, "provider_quality",
        OrAll(<< Gt(r, "attitude of nurses", 95),
                 Gt(r, "attitude of doctors", 80),
                 Gt(r, "cleanliness of hosptials", 95),
                 Gt(r, "medication quality", 95),
                 Gt(r, "Front desk related", 95),
                 Gt(r, "attitude of receptionist", 95),
                 Gt(r, "place hygeine", 95),
                 Gt(r, "quality of building", 95),
                 Gt(r, "cleanliness", 99),
                 Gt(r, "customer visiting the hospital", 95),
                 Gt(r, "clinic related", 95),
                 Gt(r, "lack of female coworkers", 95) >>))

RCCQuality(r) ==
    Set(r, "RCC_quality",
        OrAll(<< Gt(r, "call center agents", 90),
                 Gt(r, "response to phone calls", 95),
                 Gt(r, "phone calls related", 90) >>))

ProviderWaitTimes(r) ==
    Set(r, "provider_wait_times",
        OrAll(<< Gt(r, "waiting for doctors", 90),
                 Gt(r, "long queues in hospital", 90),
                 Gt(r, "delaying in getting test results", 99) >>))

MedicationRelated(r) ==
    Set(r, "medication_related",
        OrAll(<< Gt(r, "Unavailable drug for pick-up at pharmacy", 90),
                 Gt(r, "medication pickup related", 90) >>))

CustomerEducation(r) ==
    Set(r, "customer_education",
        OrAll(<< Gt(r, "customer confusion about the benefits", 95),
                 Gt(r, "lack of communication on changing providers on plan", 95) >>))

ProviderNetwork(r) ==
    Set(r, "provider_network", Gt(r, "hospitals near the customer city", 95))

TechIssues(r) ==
    Set(r, "tech_issues",
        OrAll(<< Gt(r, "internet work issue", 95), Gt(r, "app dysfunction", 95) >>))

\* Lines 155-164: single-label flags; all but the first and the eighth overwrite
\* the raw score column of the same name in place.
WaitTimeRelated(r) == Set(r, "wait_time_related", Gt(r, "waiting time", 99))
TimeRelated(r) == Set(r, "time related", Gt(r, "time related", 99))
AccessRelated(r) == Set(r, "access related", Gt(r, "access related", 99))
DoctorRelated(r) == Set(r, "doctor related", Gt(r, "doctor related", 99))
NurseRelated(r) == Set(r, "nurse related", Gt(r, "nurse related", 99))
ClinicRelated(r) == Set(r, "clinic related", Gt(r, "clinic related", 99))
DeliveryRelated(r) == Set(r, "delivery related", Gt(r, "delivery related", 98))
CustomerServiceRelated(r) ==
    Set(r, "customer service related", Gt(r, "customer service", 99))
Delay(r) == Set(r, "delay", Gt(r, "delay", 99))
MedicationTreatmentOrDrugRelated(r) ==
    Set(r, "medication, treatment, or drug related",
        Gt(r, "medication, treatment, or drug related", 90))

(***************************************************************************)
(* process_classifications, lines 166-212: the overwrite rules.            *)
(***************************************************************************)
\* Rule 1 (line 166).
DrugNotDeliveryRule(r) ==
    Loc(r, r["medication, treatment, or drug related"] = 1 /\ r["delivery related"] = 0,
        "provider_quality", 1)

\* Rule 2 (line 167).
MedicationNotDeliveryRule(r) ==
    Loc(r, r["medication_related"] = 1 /\ r["delivery related"] = 0,
        "provider_quality", 1)

\* Rule 3 (line 169).
CustomerServiceRule(r) == Loc(r, TextHas(r, "customer service"), "RCC_quality", 1)

\* Rule 4 (line 170).
MosquitoesRule(r) == Loc(r, TextHas(r, "mosquitoes"), "provider_quality", 1)

\* Rule 5 (lines 171-172).
DuringMyVisitRule(r) ==
    LET r1 == Loc(r, TextHas(r, "during my visit"), "provider_quality", 1)
    IN  Loc(r1, TextHas(r1, "during my visit"), "RCC_quality", 0)

\* Rule 6 (line 173).
DoctorRelatedRule(r) == Loc(r, r["doctor related"] = 1, "provider_quality", 1)

\* Rule 7 without its second assignment: RCC_quality is left as it was.
GymRule_QualityOnly(r) == Loc(r, TextHas(r, "gym"), "provider_quality", 1)

\* Rule 7 (lines 174-175).
GymRule(r) ==
    LET r1 == Loc(r, TextHas(r, "gym"), "provider_quality", 1)
    IN  Loc(r1, TextHas(r1, "gym"), "RCC_quality", 0)

\* Rule 8 (line 176).
AccessTimeRule(r) ==
    Loc(r, r["access related"] = 1 /\ r["time related"] = 1, "provider_wait_times", 1)

\* Rule 9 (line 177).
DelayRule(r) ==
    Loc(r, r["delay"] = 1 /\ r["RCC_quality"] = 0, "provider_wait_times", 1)

\* Lines 179-181.
MedicalStaff(r) ==
    Set(r, "Medical_Staff",
        OrAll(<< Gt(r, "attitude of doctors", 90),
                 Gt(r, "attitude of nurses", 90),
                 Eq1(r, "doctor related") >>))

\* Rule 10 (lines 183-187).
MedicalStaffKeywords == <<"doctors", "nurse", "dentist", "staff", "massage">>

\* Rule 10 left out.
MedicalStaffRule_Skipped(r) == r

MedicalStaffRule(r) ==
    Loc(r, \E i \in DOMAIN MedicalStaffKeywords : TextHas(r, MedicalStaffKeywords[i]),
        "Medical_Staff", 1)

\* Lines 189-190.
ReceptionistFrontDesk(r) ==
    Set(r, "Receptionist_Front_Desk",
        OrAll(<< Gt(r, "attitude of receptionist", 90),
                 Gt(r, "Front desk related", 95) >>))

\* Lines 192-194.
FacilityQuality(r) ==
    Set(r, "Facility Quality",
        OrAll(<< Gt(r, "quality of building", 98),
                 Gt(r, "place hygeine", 98),
                 Gt(r, "cleanliness of hosptials", 98) >>))

\* Rule 11 (lines 195-200).
FacilityKeywords ==
    <<"ambience", "welcome environment", "clean", "facilities", "empathy", "hospital">>

FacilityQualityRule(r) ==
    Loc(r, \E i \in DOMAIN FacilityKeywords : TextHas(r, FacilityKeywords[i]),
        "Facility Quality", 1)

\* Line 202.
MedicationQuality(r) ==
    Set(r, "Medication_Quality", Gt(r, "medication quality", 95))

\* Rule 12 (line 203).
TreatmentRule(r) == Loc(r, TextHas(r, "treatment"), "Medication_Quality", 1)

\* Rule 13 left out: provider_wait_times keeps what lines 141-177 gave it.
RecomputeWaitTimes_Skipped(r) == r

\* Rule 13 (line 205): provider_wait_times is assigned anew.
RecomputeWaitTimes(r) ==
    Set(r, "provider_wait_times",
        And2(Eq1(r, "time related"), Eq1(r, "medication_related")))

\* Rule 14 (lines 206-210).
WaitTimesKeywords ==
    <<"delay", "computerized process", "code", "approved", "Timelineness">>

WaitTimesRule(r) ==
    Loc(r, \E i \in DOMAIN WaitTimesKeywords : TextHas(r, WaitTimesKeywords[i]),
        "provider_wait_times", 1)

\* Rule 15 (line 212).
LackRule(r) == Loc(r, TextHas(r, "lack"), "Health_benefits_coverage", 1)

(***************************************************************************)
(* The statements of process_classifications up to line 212, named by the  *)
(* source line each starts on, with the columns each reads (a column that  *)
(* is not in the frame raises KeyError) and its effect on one row.         *)
(***************************************************************************)
Stmts ==
    << 119, 124, 137, 141, 145, 148, 151, 152,
       155, 156, 157, 158, 159, 160, 161, 162, 163, 164,
       166, 167, 169, 170, 171, 173, 174, 176, 177,
       179, 183, 189, 192, 195, 202, 203, 205, 206, 212 >>

Reads(line) ==
    CASE line = 119 -> { "lack of vitamin c in customer plan benefits",
                         "lack of Paediatric care in customer plan benefits",
                         "Lack of medical benefits in customer plan",
                         "lack of typhoid drugs" }
      [] line = 124 -> { "attitude of nurses", "attitude of doctors",
                         "cleanliness of hosptials", "medication quality",
                         "Front desk related", "attitude of receptionist",
                         "place hygeine", "quality of building", "cleanliness",
                         "customer visiting the hospital", "clinic related",
                         "lack of female coworkers" }
      [] line = 137 -> { "call center agents", "response to phone calls",
                         "phone calls related" }
      [] line = 141 -> { "waiting for doctors", "long queues in hospital",
                         "delaying in getting test results" }
      [] line = 145 -> { "Unavailable drug for pick-up at pharmacy",
                         "medication pickup related" }
      [] line = 148 -> { "customer confusion about the benefits",
                         "lack of communication on changing providers on plan" }
      [] line = 151 -> { "hospitals near the customer city" }
      [] line = 152 -> { "internet work issue", "app dysfunction" }
      [] line = 155 -> { "waiting time" }
      [] line = 156 -> { "time related" }
      [] line = 157 -> { "access related" }
      [] line = 158 -> { "doctor related" }
      [] line = 159 -> { "nurse related" }
      [] line = 160 -> { "clinic related" }
      [] line = 161 -> { "delivery related" }
      [] line = 162 -> { "customer service" }
      [] line = 163 -> { "delay" }
      [] line = 164 -> { "medication, treatment, or drug related" }
      [] line = 166 -> { "medication, treatment, or drug related", "delivery related" }
      [] line = 167 -> { "medication_related", "delivery related" }
      [] line = 173 -> { "doctor related" }
      [] line = 176 -> { "access related", "time related" }
      [] line = 177 -> { "delay", "RCC_quality" }
      [] line = 179 -> { "attitude of doctors", "attitude of nurses", "doctor related" }
      [] line = 189 -> { "attitude of receptionist", "Front desk related" }
      [] line = 192 -> { "quality of building", "place hygeine",
                         "cleanliness of hosptials" }
      [] line = 202 -> { "medication quality" }
      [] line = 205 -> { "time related", "medication_related" }
      [] OTHER -> { "CUSTOMER_RESPONSE" }

Exec(line, r) ==
    CASE line = 119 -> HealthBenefitsCoverage(r)
      [] line = 124 -> ProviderQuality(r)
      [] line = 137 -> RCCQuality(r)
      [] line = 141 -> ProviderWaitTimes(r)
      [] line = 145 -> MedicationRelated(r)
      [] line = 148 -> CustomerEducation(r)
      [] line = 151 -> ProviderNetwork(r)
      [] line = 152 -> TechIssues(r)
      [] line = 155 -> WaitTimeRelated(r)
      [] line = 156 -> TimeRelated(r)
      [] line = 157 -> AccessRelated(r)
      [] line = 158 -> DoctorRelated(r)
      [] line = 159 -> NurseRelated(r)
      [] line = 160 -> ClinicRelated(r)
      [] line = 161 -> DeliveryRelated(r)
      [] line = 162 -> CustomerServiceRelated(r)
      [] line = 163 -> Delay(r)
      [] line = 164 -> MedicationTreatmentOrDrugRelated(r)
      [] line = 166 -> DrugNotDeliveryRule(r)
      [] line = 167 -> MedicationNotDeliveryRule(r)
      [] line = 169 -> CustomerServiceRule(r)
      [] line = 170 -> MosquitoesRule(r)
      [] line = 171 -> DuringMyVisitRule(r)
      [] line = 173 -> DoctorRelatedRule(r)
      [] line = 174 -> GymRule(r)
      [] line = 176 -> AccessTimeRule(r)
      [] line = 177 -> DelayRule(r)
      [] line = 179 -> MedicalStaff(r)
      [] line = 183 -> MedicalStaffRule(r)
      [] line = 189 -> ReceptionistFrontDesk(r)
      [] line = 192 -> FacilityQuality(r)
      [] line = 195 -> FacilityQualityRule(r)
      [] line = 202 -> MedicationQuality(r)
      [] line = 203 -> TreatmentRule(r)
      [] line = 205 -> RecomputeWaitTimes(r)
      [] line = 206 -> WaitTimesRule(r)
      [] line = 212 -> LackRule(r)

\* The statements with a missing score column read as 0 instead of raising.
RECURSIVE RunRow_DefaultZero(_, _)
RunRow_DefaultZero(r, k) ==
    IF k > Len(Stmts) \/ DOMAIN r = {} THEN [row |-> r, error |-> "none"]
    ELSE RunRow_DefaultZero(
             Exec(Stmts[k], r @@ [c \in Reads(Stmts[k]) |-> 0]), k + 1)

\* The statements from the k-th on, in order, on one row.  Every statement is
\* column-wise, and every row of a frame has the frame's columns, so the first
\* statement that reads a missing column is the same for each row: the run
\* stops there, the row left as the statements before it made it.
RECURSIVE RunRow(_, _)
RunRow(r, k) ==
    IF k > Len(Stmts) THEN [row |-> r, error |-> "none"]
    ELSE IF ~(Reads(Stmts[k]) \subseteq DOMAIN r)
         THEN [row |-> r, error |-> "KeyError"]
    ELSE RunRow(Exec(Stmts[k], r), k + 1)

\* Lines 119-212 on the whole frame.  pd.DataFrame([]) has no column, so the
\* statement of line 119 raises on it.
RunStmts(df) ==
    IF Len(df) = 0 THEN [df |-> df, error |-> "KeyError"]
    ELSE LET out == Rows([i \in DOMAIN df |-> RunRow(df[i], 1)])
         IN  [df |-> Rows([i \in DOMAIN df |-> out[i].row]), error |-> out[1].error]

(***************************************************************************)
(* process_classifications, lines 214-231: projection, merge, topics.      *)
(***************************************************************************)
Range(s) == {s[i] : i \in DOMAIN s}

RECURSIVE Flatten(_)
Flatten(ss) == IF Len(ss) = 0 THEN <<>> ELSE Head(ss) \o Flatten(Tail(ss))

\* df[[c1, c2, ...]] on one row.
Project(r, cols) == [c \in Range(cols) |-> r[c]]

QaColumns ==
    << "CUSTOMER_RESPONSE", "Health_benefits_coverage", "provider_quality",
       "RCC_quality", "provider_wait_times", "customer_education",
       "provider_network", "tech_issues", "Medical_Staff",
       "Receptionist_Front_Desk", "Facility Quality", "Medication_Quality",
       "medication, treatment, or drug related" >>

SampleColumns == << "CUSTOMER_RESPONSE", "type_service", "provider_name" >>

\* The main-topic columns with a sub-category column among them.
MainTopicColumns_WithSub ==
    << "Health_benefits_coverage", "provider_quality", "RCC_quality",
       "provider_wait_times", "customer_education", "provider_network",
       "tech_issues", "Medical_Staff" >>

MainTopicColumns ==
    << "Health_benefits_coverage", "provider_quality", "RCC_quality",
       "provider_wait_times", "customer_education", "provider_network",
       "tech_issues" >>

SubTopicColumns ==
    << "Medical_Staff", "Receptionist_Front_Desk", "Facility Quality",
       "Medication_Quality" >>

\* pd.merge(left, right, on='CUSTOMER_RESPONSE'): the inner join; every pair of
\* a left row and a right row with equal text gives one row, left order kept.
Merge(left, right) ==
    Flatten([i \in DOMAIN left |->
        LET Match(r) == r["CUSTOMER_RESPONSE"] = left[i]["CUSTOMER_RESPONSE"]
            hits == SelectSeq(right, Match)
        IN  Rows([j \in DOMAIN hits |-> left[i] @@ hits[j]])])

\* find_columns_with_one applied to the columns cols of one row.
find_columns_with_one(r, cols) ==
    LET IsOne(c) == r[c] = 1
    IN  Join(SelectSeq(cols, IsOne))

\* Line 231 left out.
ReplaceEmpty_Skipped(v) == v

\* Series.replace('', 'generic') on one value.
ReplaceEmpty(v) == IF v = "" THEN "generic" ELSE v

\* Lines 219-231 on the chunk and the projected flags.
FinalDf(chunk, qa) ==
    LET sample == Rows([i \in DOMAIN chunk |-> Project(chunk[i], SampleColumns)])
        merged == Merge(sample, qa)
    IN  Rows([i \in DOMAIN merged |->
            [ CUSTOMER_RESPONSE |-> merged[i]["CUSTOMER_RESPONSE"],
              main_topic |-> find_columns_with_one(merged[i], MainTopicColumns),
              sub_topic |-> ReplaceEmpty(
                                find_columns_with_one(merged[i], SubTopicColumns)),
              type_service |-> merged[i]["type_service"] ]])

(***************************************************************************)
(* classify_responses (lines 90-112).                                      *)
(***************************************************************************)
\* Line 102 without the strip(): only the empty string counts as no text.
HasText_NoStrip(input_text) == input_text # ""

\* Line 102: `if input_text.strip():`.
HasText(input_text) == Strip(input_text) # ""

\* What self.classifier does on the call made for input row i.
Behaviour(i) == classifier[nps_data_qa[i]]

\* Lines 104-107 for input row i, when the classifier returns: the text and
\* one score per label of the taxonomy handed in.
ScoreDict(i) ==
    [l \in labels |-> Behaviour(i).scores[l]]
        @@ ("CUSTOMER_RESPONSE" :> nps_data_qa[i]["CUSTOMER_RESPONSE"])

\* Lines 100-110 with the try/except around the loop instead of inside it: the
\* first call that raises ends the classification of the chunk.
RECURSIVE ClassifyLoop_StopAtFailure(_, _, _)
ClassifyLoop_StopAtFailure(detailed_scores, i, hi) ==
    IF i > hi THEN [detailed_scores |-> detailed_scores, error |-> "none"]
    ELSE IF IsNone(nps_data_qa[i]["CUSTOMER_RESPONSE"])
         THEN [detailed_scores |-> detailed_scores, error |-> "AttributeError"]
    ELSE IF ~HasText(StrOf(nps_data_qa[i]["CUSTOMER_RESPONSE"]))
         THEN ClassifyLoop_StopAtFailure(detailed_scores, i + 1, hi)
    ELSE IF Behaviour(i).raises
         THEN [detailed_scores |-> detailed_scores, error |-> "none"]
    ELSE ClassifyLoop_StopAtFailure(Append(detailed_scores, ScoreDict(i)), i + 1, hi)

\* Lines 100-110 over the input rows i..hi: detailed_scores grows by one
\* score_dict per row with text whose classifier call returns; a call that
\* raises is caught and the loop goes on with the next row.  On a row whose
\* text is None, line 102 raises AttributeError: it is outside the try, and
\* the loop ends there.
RECURSIVE ClassifyLoop(_, _, _)
ClassifyLoop(detailed_scores, i, hi) ==
    IF i > hi THEN [detailed_scores |-> detailed_scores, error |-> "none"]
    ELSE IF IsNone(nps_data_qa[i]["CUSTOMER_RESPONSE"])
         THEN [detailed_scores |-> detailed_scores, error |-> "AttributeError"]
    ELSE IF HasText(StrOf(nps_data_qa[i]["CUSTOMER_RESPONSE"])) /\ ~Behaviour(i).raises
         THEN ClassifyLoop(Append(detailed_scores, ScoreDict(i)), i + 1, hi)
    ELSE ClassifyLoop(detailed_scores, i + 1, hi)

\* classify_responses appending to the frame of the previous call.
NewDetailedScoresDf_Accumulating(self_df, lo, hi) ==
    LET res == ClassifyLoop(self_df, lo, hi)
    IN  IF res.error = "none" THEN res.detailed_scores ELSE self_df

\* self.detailed_scores_df after classify_responses on rows lo..hi.  Line 98
\* starts from an empty list: the frame of the previous call (self_df) is
\* not read.  When the loop raises, line 111 is not reached and the attribute
\* keeps the frame it had.
NewDetailedScoresDf(self_df, lo, hi) ==
    LET res == ClassifyLoop(<<>>, lo, hi)
    IN  IF res.error = "none" THEN res.detailed_scores ELSE self_df

\* The texts handed to self.classifier while classifying rows i..hi: those
\* of the rows with text, up to the first row whose text is None.
RECURSIVE ClassifierCalls(_, _)
ClassifierCalls(i, hi) ==
    IF i > hi \/ IsNone(nps_data_qa[i]["CUSTOMER_RESPONSE"]) THEN <<>>
    ELSE IF HasText(StrOf(nps_data_qa[i]["CUSTOMER_RESPONSE"]))
         THEN <<StrOf(nps_data_qa[i]["CUSTOMER_RESPONSE"])>> \o ClassifierCalls(i + 1, hi)
    ELSE ClassifierCalls(i + 1, hi)

(***************************************************************************)
(* save_results (lines 234-246) and the destination table.                 *)
(***************************************************************************)
\* upload_large_table(..., if_exists=...) of data_science_utils.
upload_large_table(table, df, if_exists) ==
    IF if_exists = "append" THEN table \o df ELSE df

\* Lines 243-246: the mode passed to upload_large_table.
IfExists(inc) == IF inc = TRUE THEN "append" ELSE "replace"

(***************************************************************************)
(* getcode (lines 47-78) and preprocess_data (lines 80-88).                *)
(***************************************************************************)
\* The select list of the query (lines 57-60).
RawColumns == {"provider_name", "customer_response", "type_service"}

\* self.nps_data as __init__ leaves it (line 32): pd.DataFrame(), no column.
EmptyDataFrame == [columns |-> {}, rows |-> <<>>]

\* Line 86 on one row: the column CUSTOMER_RESPONSE is added to self.nps_data.
WithResponse(r) == Set(r, "CUSTOMER_RESPONSE", r["customer_response"])

\* Line 87: the columns of self.nps_data_qa.
NpsDataQaColumns == << "CUSTOMER_RESPONSE", "provider_name", "type_service" >>

\* Lines 86-87 on one row of the query's result.
QaRow(r) == Project(WithResponse(r), NpsDataQaColumns)

(***************************************************************************)
(* run_in_chunks (lines 248-256): the current chunk.                       *)
(***************************************************************************)
Min(a, b) == IF a < b THEN a ELSE b

ChunkLo == start + 1
ChunkHi == Min(start + chunk_size, Len(nps_data_qa))

\* self.nps_data_qa.iloc[start:start + self.chunk_size]
Chunk == SubSeq(nps_data_qa, ChunkLo, ChunkHi)

(***************************************************************************)
(* Actions.  The caller calls getcode, preprocess_data and run_in_chunks    *)
(* in any order whenever no call is in progress; pc and error tell how the *)
(* last call ended.                                                        *)
(***************************************************************************)
NoError == [type |-> "none", in |-> "none"]

Raised(type, method) == [type |-> type, in |-> method]

\* No call is in progress.
Quiescent == pc \in {"idle", "done", "aborted"}

\* getcode(): self.nps_data becomes the result of the query (lines 73-74).
\* The result is whatever the warehouse holds at that time.
Getcode ==
    /\ Quiescent
    /\ Len(warehouse) > 0
    /\ nps_data' = [columns |-> RawColumns, rows |-> Head(warehouse)]
    /\ warehouse' = Tail(warehouse)
    /\ pc' = "idle"
    /\ error' = NoError
    /\ UNCHANGED <<attrs, nps_data_qa, classifier, labels, chunk_size, incremental,
                   start, run, invocations, detailed_scores_df, qa_data, final_df,
                   final_nps_op, calls, outputs, batches>>

\* preprocess_data() returns: line 86 adds the column to self.nps_data, line
\* 87 sets self.nps_data_qa.
PreprocessData ==
    /\ Quiescent
    /\ "customer_response" \in nps_data.columns
    /\ nps_data' = [columns |-> nps_data.columns \cup {"CUSTOMER_RESPONSE"},
                    rows |-> Rows([i \in DOMAIN nps_data.rows |->
                                      WithResponse(nps_data.rows[i])])]
    /\ nps_data_qa' = Rows([i \in DOMAIN nps_data.rows |-> QaRow(nps_data.rows[i])])
    /\ attrs' = attrs \cup {"nps_data_qa"}
    /\ pc' = "idle"
    /\ error' = NoError
    /\ UNCHANGED <<warehouse, classifier, labels, chunk_size, incremental, start, run,
                   invocations, detailed_scores_df, qa_data, final_df, final_nps_op,
                   calls, outputs, batches>>

\* preprocess_data() before any getcode(): self.nps_data has no column, and
\* line 86 raises KeyError.
PreprocessDataRaises ==
    /\ Quiescent
    /\ "customer_response" \notin nps_data.columns
    /\ pc' = "aborted"
    /\ error' = Raised("KeyError", "preprocess_data")
    /\ UNCHANGED <<warehouse, nps_data, attrs, nps_data_qa, classifier, labels,
                   chunk_size, incremental, start, run, invocations,
                   detailed_scores_df, qa_data, final_df, final_nps_op, calls,
                   outputs, batches>>

\* run_in_chunks is entered: lines 249-250, up to the first chunk.  run counts
\* the calls that got past line 249.
RunInChunks ==
    /\ Quiescent
    /\ run < invocations
    /\ "nps_data_qa" \in attrs
    /\ run' = run + 1
    /\ batches' = [batches EXCEPT ![run + 1] = nps_data_qa]
    /\ start' = 0
    /\ pc' = IF Len(nps_data_qa) > 0 THEN "classify" ELSE "done"
    /\ error' = NoError
    /\ UNCHANGED <<warehouse, nps_data, attrs, nps_data_qa, classifier, labels,
                   chunk_size, incremental, invocations, detailed_scores_df, qa_data,
                   final_df, final_nps_op, calls, outputs>>

\* run_in_chunks before any preprocess_data: line 249 reads self.nps_data_qa,
\* which is not set, and raises AttributeError.
RunInChunksRaises ==
    /\ Quiescent
    /\ "nps_data_qa" \notin attrs
    /\ pc' = "aborted"
    /\ error' = Raised("AttributeError", "run_in_chunks")
    /\ UNCHANGED <<warehouse, nps_data, attrs, nps_data_qa, classifier, labels,
                   chunk_size, incremental, start, run, invocations,
                   detailed_scores_df, qa_data, final_df, final_nps_op, calls,
                   outputs, batches>>

\* Line 253: classify_responses(labels, chunk) returns.
ClassifyResponses ==
    /\ pc = "classify"
    /\ ClassifyLoop(<<>>, ChunkLo, ChunkHi).error = "none"
    /\ detailed_scores_df' = NewDetailedScoresDf(detailed_scores_df, ChunkLo, ChunkHi)
    /\ calls' = ClassifierCalls(ChunkLo, ChunkHi)
    /\ attrs' = attrs \cup {"detailed_scores_df"}
    /\ pc' = "process"
    /\ UNCHANGED <<warehouse, nps_data, nps_data_qa, classifier, labels, chunk_size,
                   incremental, invocations, start, run, qa_data, final_df,
                   final_nps_op, outputs, batches, error>>

\* Line 253: classify_responses(labels, chunk) raises at line 102, on a row
\* whose text is None; nothing in run_in_chunks catches it.
ClassifyResponsesRaises ==
    /\ pc = "classify"
    /\ ClassifyLoop(<<>>, ChunkLo, ChunkHi).error # "none"
    /\ detailed_scores_df' = NewDetailedScoresDf(detailed_scores_df, ChunkLo, ChunkHi)
    /\ calls' = ClassifierCalls(ChunkLo, ChunkHi)
    /\ pc' = "aborted"
    /\ error' = Raised(ClassifyLoop(<<>>, ChunkLo, ChunkHi).error, "classify_responses")
    /\ UNCHANGED <<warehouse, nps_data, attrs, nps_data_qa, classifier, labels,
                   chunk_size, incremental, invocations, start, run, qa_data, final_df,
                   final_nps_op, outputs, batches>>

\* Line 254: process_classifications(chunk) returns.
ProcessClassifications ==
    /\ pc = "process"
    /\ LET res == RunStmts(detailed_scores_df)
           qa == Rows([i \in DOMAIN res.df |-> Project(res.df[i], QaColumns)])
       IN  /\ res.error = "none"
           /\ detailed_scores_df' = res.df
           /\ qa_data' = qa
           /\ final_df' = FinalDf(Chunk, qa)
    /\ attrs' = attrs \cup {"qa_data", "nps_data_sample", "final_df"}
    /\ pc' = "save"
    /\ UNCHANGED <<warehouse, nps_data, nps_data_qa, classifier, labels, chunk_size,
                   incremental, invocations, start, run, final_nps_op, calls, outputs,
                   batches, error>>

\* Line 254: process_classifications(chunk) raises; nothing in run_in_chunks
\* catches it, so the run ends there.
ProcessClassificationsRaises ==
    /\ pc = "process"
    /\ LET res == RunStmts(detailed_scores_df)
       IN  /\ res.error # "none"
           /\ detailed_scores_df' = res.df
           /\ error' = Raised(res.error, "process_classifications")
    /\ pc' = "aborted"
    /\ UNCHANGED <<warehouse, nps_data, attrs, nps_data_qa, classifier, labels,
                   chunk_size, incremental, invocations, start, run, qa_data, final_df,
                   final_nps_op, calls, outputs, batches>>

\* Line 255: save_results() returns, then the loop of line 250 moves to the
\* next chunk.
SaveResults ==
    /\ pc = "save"
    /\ final_nps_op' = upload_large_table(final_nps_op, final_df, IfExists(incremental))
    /\ outputs' = [outputs EXCEPT ![run] = Append(@, final_df)]
    /\ start' = start + chunk_size
    /\ pc' = IF start + chunk_size < Len(nps_data_qa) THEN "classify" ELSE "done"
    /\ UNCHANGED <<warehouse, nps_data, attrs, nps_data_qa, classifier, labels,
                   chunk_size, incremental, invocations, run, detailed_scores_df,
                   qa_data, final_df, calls, batches, error>>

\* Line 255: save_results() raises at line 242, get_connection failing before
\* any upload; the table is as it was and the run ends there.
SaveResultsRaises ==
    /\ pc = "save"
    /\ pc' = "aborted"
    /\ error' = Raised("Exception", "save_results")
    /\ UNCHANGED <<warehouse, nps_data, attrs, nps_data_qa, classifier, labels,
                   chunk_size, incremental, invocations, start, run,
                   detailed_scores_df, qa_data, final_df, final_nps_op, calls,
                   outputs, batches>>

Next ==
    \/ Getcode
    \/ PreprocessData
    \/ PreprocessDataRaises
    \/ RunInChunks
    \/ RunInChunksRaises
    \/ ClassifyResponses
    \/ ClassifyResponsesRaises
    \/ ProcessClassifications
    \/ ProcessClassificationsRaises
    \/ SaveResults
    \/ SaveResultsRaises

(***************************************************************************)
(* Inputs.                                                                 *)
(***************************************************************************)
\* Scores: every label at 0, some raised.
Base == [l \in Labels |-> 0]

Raise(scores, l, v) == [scores EXCEPT ![l] = v]

\* One value at each threshold of the rule table, and one above them all.
Levels == {70, 80, 90, 95, 98, 99, 100}

\* provider_domain: the service type of each provider.
TypeService(p) == IF p = "P1" THEN "hospital" ELSE "pharmacy"

\* A row of the query's result; text is a cell, Str(s) or None.
Response(text, p) ==
    [customer_response |-> text, type_service |-> TypeService(p), provider_name |-> p]

\* What was in the destination table before the run.
PriorTable ==
    << [CUSTOMER_RESPONSE |-> Str("earlier response"), main_topic |-> "",
        sub_topic |-> "generic", type_service |-> "hospital"] >>

\* The rows the first query result draws from: a blank text (a vertical tab
\* and U+001F), a NULL text, one text under two providers, and two more texts.
InputRows ==
    { Response(Str(""), "P2"),
      Response(None, "P1"),
      Response(Str("Long delay at the hospital"), "P1"),
      Response(Str("Long delay at the hospital"), "P2"),
      Response(Str("Customer service was rude"), "P1"),
      Response(Str("ok thanks"), "P2") }

\* The classifier's scores for each of these texts.
TextScores(text) ==
    CASE text = "Long delay at the hospital" ->
            Raise(Raise(Base, "delay", 100), "waiting for doctors", 100)
      [] text = "Customer service was rude" ->
            Raise(Raise(Base, "call center agents", 100), "clinic related", 98)
      [] OTHER -> Base

\* The taxonomies a run is given: the complete one, or one label short.
MissingLabels == {"lack of typhoid drugs", "delay"}

LabelSets == {Labels} \cup {Labels \ {l} : l \in MissingLabels}

\* SELECT DISTINCT: no two rows of a result are equal.
InputSeqs ==
    UNION { {s \in [1..n -> InputRows] : \A i, j \in 1..n : i # j => s[i] # s[j]}
            : n \in 0..MaxRows }

\* Results of one row for a warehouse that is queried twice.
ReloadSeqs ==
    { <<Response(Str(" \n"), "P1")>>, <<Response(Str(""), "P2")>>,
      <<Response(Str("ok thanks"), "P2")>> }

\* What the warehouse returns to the successive getcode() calls: one result,
\* or two results of one row.
Warehouses ==
    {<<d>> : d \in InputSeqs} \cup {<<d, e>> : d \in ReloadSeqs, e \in ReloadSeqs}

\* The rows to label, in any result of the warehouse w, that have a text
\* line 102 lets through.
TextRows(w) ==
    {QaRow(r) : r \in {x \in UNION {Range(w[k]) : k \in DOMAIN w} :
                          /\ ~IsNone(x["customer_response"])
                          /\ HasText(StrOf(x["customer_response"]))}}

InitCommon ==
    /\ nps_data = EmptyDataFrame
    /\ attrs = {}
    /\ nps_data_qa = <<>>
    /\ pc = "idle"
    /\ start = 0
    /\ run = 0
    /\ detailed_scores_df = <<>>
    /\ qa_data = <<>>
    /\ final_df = <<>>
    /\ final_nps_op = PriorTable
    /\ calls = <<>>
    /\ outputs = [r \in 1..MaxRuns |-> <<>>]
    /\ batches = [r \in 1..MaxRuns |-> <<>>]
    /\ error = NoError

Init ==
    /\ warehouse \in Warehouses
    /\ \E fails \in SUBSET TextRows(warehouse) :
          classifier = [r \in TextRows(warehouse) |->
                          [raises |-> r \in fails,
                           scores |-> TextScores(StrOf(r["CUSTOMER_RESPONSE"]))]]
    /\ labels \in LabelSets
    /\ chunk_size \in 1..MaxRows
    /\ incremental \in BOOLEAN
    /\ invocations = MaxRuns
    /\ InitCommon

Spec == Init /\ [][Next]_vars

(***************************************************************************)
(* The flag rules on their own: one input row, one chunk, the complete     *)
(* taxonomy; the text ranges over FlagTexts and the classifier's scores    *)
(* over one raised label at every level, or (for PairTexts) one label at   *)
(* every level together with one of PairLabels above every threshold.  A   *)
(* NULL text is among the inputs.                                          *)
(***************************************************************************)
PairLabels ==
    { "time related", "access related", "delay", "delivery related",
      "medication pickup related", "doctor related", "call center agents",
      "waiting for doctors", "medication, treatment, or drug related" }

SingleProfiles == {Base} \cup {Raise(Base, l, v) : l \in Labels, v \in Levels}

PairProfiles ==
    {Raise(Raise(Base, l, v), m, 100) : l \in Labels, v \in Levels, m \in PairLabels}

InitFlags ==
    /\ \/ \E text \in FlagTexts, scores \in SingleProfiles \cup PairProfiles,
            raises \in BOOLEAN :
            /\ scores \in SingleProfiles \/ text \in PairTexts
            /\ raises => scores = Base
            /\ warehouse = << <<Response(Str(text), "P1")>> >>
            /\ classifier = [r \in TextRows(warehouse) |->
                               [raises |-> raises, scores |-> scores]]
       \/ /\ warehouse = << <<Response(None, "P1")>> >>
          /\ classifier = [r \in TextRows(warehouse) |->
                             [raises |-> FALSE, scores |-> Base]]
    /\ labels = Labels
    /\ chunk_size = 1
    /\ incremental = TRUE
    /\ invocations = 1
    /\ InitCommon

SpecFlags == InitFlags /\ [][Next]_vars

(***************************************************************************)
(* Vocabulary of the properties, stated on the inputs and not through the  *)
(* operators above.                                                        *)
(***************************************************************************)
IsBlankText(t) == \A k \in 1..Len(t) : SubSeq(t, k, k) \in Whitespace

\* The text cell of input row i, and whether a cell holds a blank string.
TextOf(i) == nps_data_qa[i]["CUSTOMER_RESPONSE"]

Blank(v) == ~IsNone(v) /\ IsBlankText(StrOf(v))

\* Row i has a text to classify.
Classifiable(i) == ~IsNone(TextOf(i)) /\ ~IsBlankText(StrOf(TextOf(i)))

\* The call made for row i returns / raises.
Succeeds(i) == Classifiable(i) /\ ~classifier[nps_data_qa[i]].raises
Fails(i) == Classifiable(i) /\ classifier[nps_data_qa[i]].raises

\* The scores the classifier gives for row i.
RawScores(i) == classifier[nps_data_qa[i]].scores

ChunkIdx == ChunkLo..ChunkHi

\* The input rows of the current chunk whose call returns, in input order.
GoodIdx ==
    LET idx == [k \in 1..(ChunkHi - ChunkLo + 1) |-> ChunkLo + k - 1]
    IN  SelectSeq(idx, Succeeds)

\* The run is inside a chunk, past process_classifications.
Processed == pc = "save"

LabelsComplete == labels = Labels

\* Every text of the rows to label is a string, as the responses of the
\* specification are.
NoNullText == \A i \in DOMAIN nps_data_qa : ~IsNone(TextOf(i))

\* The last call was a run_in_chunks that ended in an exception of
\* classify_responses or process_classifications.
LabelingRaised == error.in \in {"classify_responses", "process_classifications"}

(***************************************************************************)
(* C1.  Within one run, the records saved by an earlier chunk stay in the  *)
(* destination table: every record of every chunk saved so far in this run *)
(* is a row of final_nps_op, in append mode and in replace mode alike.     *)
(***************************************************************************)
C1_SavedChunksStayCommitted ==
    run >= 1 =>
        \A k \in DOMAIN outputs[run] : \A j \in DOMAIN outputs[run][k] :
            \E m \in DOMAIN final_nps_op : final_nps_op[m] = outputs[run][k][j]

(***************************************************************************)
(* C2.  Bad rows never abort a batch: with the complete taxonomy, whatever *)
(* rows of a chunk are blank or fail in the classifier, neither            *)
(* classify_responses nor process_classifications raises (so save_results  *)
(* runs and the next chunks follow).                                       *)
(***************************************************************************)
C2_BadRowsNeverAbort == (LabelsComplete /\ NoNullText) => ~LabelingRaised

(***************************************************************************)
(* C3.  A classifier failure for row i does not keep the later rows of the *)
(* chunk out: with the complete taxonomy, when a row of the chunk fails    *)
(* and a later row's call returns, the frame of scores holds exactly the   *)
(* rows whose call returned, in input order, process_classifications does  *)
(* not raise, and the later row has its record in final_df.  The texts are *)
(* strings.                                                                *)
(***************************************************************************)
FailureThenSuccess == \E i, j \in ChunkIdx : i < j /\ Fails(i) /\ Succeeds(j)

C3_LaterRowsSurviveFailure ==
    (LabelsComplete /\ NoNullText /\ pc \in {"classify", "process", "save", "aborted"}
        /\ FailureThenSuccess) =>
        /\ pc \in {"process", "save"} =>
              /\ Len(detailed_scores_df) = Len(GoodIdx)
              /\ \A k \in DOMAIN GoodIdx :
                    detailed_scores_df[k]["CUSTOMER_RESPONSE"] = TextOf(GoodIdx[k])
        /\ ~LabelingRaised
        /\ Processed =>
              \A i, j \in ChunkIdx : (i < j /\ Fails(i) /\ Succeeds(j)) =>
                  \E m \in DOMAIN final_df :
                      /\ final_df[m].CUSTOMER_RESPONSE = TextOf(j)
                      /\ final_df[m].type_service = nps_data_qa[j]["type_service"]

C3_Witness == LabelsComplete /\ NoNullText /\ FailureThenSuccess /\ Processed

(***************************************************************************)
(* C4.  A blank response (empty or whitespace only) is never handed to the *)
(* classifier and never reaches an output: no call, no row of the scores,  *)
(* no record of final_df, of a saved chunk or added to the table has a     *)
(* blank text.                                                             *)
(***************************************************************************)
C4_BlankNeverClassifiedNorOutput ==
    /\ \A k \in DOMAIN calls : ~IsBlankText(calls[k])
    /\ \A k \in DOMAIN detailed_scores_df :
          ~Blank(detailed_scores_df[k]["CUSTOMER_RESPONSE"])
    /\ \A k \in DOMAIN final_df : ~Blank(final_df[k].CUSTOMER_RESPONSE)
    /\ \A m \in DOMAIN final_nps_op : ~Blank(final_nps_op[m].CUSTOMER_RESPONSE)

C4_Witness ==
    /\ Processed
    /\ \E i \in ChunkIdx : Blank(TextOf(i)) /\ StrOf(TextOf(i)) # ""
    /\ Len(final_df) > 0

(***************************************************************************)
(* C5.  Rule 13 overwrites rules 8-9 and the threshold value: after        *)
(* process_classifications the provider_wait_times of every scored row is  *)
(* 1 exactly when (time related > 0.99 and one of the two medication       *)
(* pickup labels > 0.9) or the text holds a rule-14 keyword; the flag that *)
(* reaches the output is that same value.                                  *)
(***************************************************************************)
Rule14Matches(text) ==
    \E kw \in {"delay", "computerized process", "code", "approved", "Timelineness"} :
        Mentions(text, kw)

TimeAndMedication(raw) ==
    /\ raw["time related"] > 99
    /\ \/ raw["Unavailable drug for pick-up at pharmacy"] > 90
       \/ raw["medication pickup related"] > 90

C5_WaitTimesRecomputed ==
    Processed =>
        /\ Len(detailed_scores_df) = Len(GoodIdx)
        /\ \A k \in DOMAIN GoodIdx :
              LET raw == RawScores(GoodIdx[k])
                  text == StrOf(TextOf(GoodIdx[k]))
                  pwt == detailed_scores_df[k]["provider_wait_times"]
              IN  /\ pwt \in {0, 1}
                  /\ pwt = 1 <=> (TimeAndMedication(raw) \/ Rule14Matches(text))
                  /\ qa_data[k]["provider_wait_times"] = pwt

\* Rule 9 has fired (delay flag set, RCC_quality 0), rule 13 has taken it back.
C5_Witness ==
    /\ Processed
    /\ \E k \in DOMAIN GoodIdx :
          /\ RawScores(GoodIdx[k])["delay"] > 99
          /\ detailed_scores_df[k]["RCC_quality"] = 0
          /\ ~Rule14Matches(StrOf(TextOf(GoodIdx[k])))
          /\ detailed_scores_df[k]["provider_wait_times"] = 0

(***************************************************************************)
(* C6.  The end-to-end example: a text with the keyword "doctors" and no   *)
(* other rule keyword, 'attitude of doctors' in (0.8, 0.9], 'waiting for   *)
(* doctors' above 0.9 and every other label at most 0.7 (the lowest        *)
(* threshold of the table).                                                *)
(***************************************************************************)
DoctorsExample(i) ==
    /\ Succeeds(i)
    /\ \A kw \in Keywords : Mentions(StrOf(TextOf(i)), kw) <=> kw = "doctors"
    /\ RawScores(i)["attitude of doctors"] > 80
    /\ RawScores(i)["attitude of doctors"] =< 90
    /\ RawScores(i)["waiting for doctors"] > 90
    /\ \A l \in Labels \ {"attitude of doctors", "waiting for doctors"} :
          RawScores(i)[l] =< 70

\* C6 as amended: the record of the example has main_topic "provider_quality"
\* and sub_topic "Medical_Staff", the column name the code joins.
C6_DoctorsExampleTopics ==
    Processed =>
        \A i \in ChunkIdx : DoctorsExample(i) =>
            /\ \E m \in DOMAIN final_df : final_df[m].CUSTOMER_RESPONSE = TextOf(i)
            /\ \A m \in DOMAIN final_df :
                  final_df[m].CUSTOMER_RESPONSE = TextOf(i) =>
                      /\ final_df[m].main_topic = "provider_quality"
                      /\ final_df[m].sub_topic = "Medical_Staff"

\* C6 as claimed: main_topic is exactly "provider_quality" and sub_topic is
\* exactly "medical_staff".
C6_DoctorsExampleTopicsAsClaimed ==
    Processed =>
        \A i \in ChunkIdx : DoctorsExample(i) =>
            \A m \in DOMAIN final_df :
                final_df[m].CUSTOMER_RESPONSE = TextOf(i) =>
                    /\ final_df[m].main_topic = "provider_quality"
                    /\ final_df[m].sub_topic = "medical_staff"

C6_Witness == Processed /\ \E i \in ChunkIdx : DoctorsExample(i)

(***************************************************************************)
(* C7.  main_topic is the ", "-joined names of the main-category flags     *)
(* that are 1, in the fixed order, empty when none is set; no other flag   *)
(* adds a name.                                                            *)
(***************************************************************************)
\* The i-th name and the separator before it, when the i-th flag is on.
Piece(names, on, i) ==
    IF on[i]
    THEN (IF \E j \in 1..(i - 1) : on[j] THEN ", " ELSE "") \o names[i]
    ELSE ""

MainFlagColumns ==
    << "Health_benefits_coverage", "provider_quality", "RCC_quality",
       "provider_wait_times", "customer_education", "provider_network",
       "tech_issues" >>

\* The names as the claim spells them.
MainFlagNamesAsClaimed ==
    << "health_benefits_coverage", "provider_quality", "rcc_quality",
       "provider_wait_times", "customer_education", "provider_network",
       "tech_issues" >>

ExpectedMainTopic(names, q) ==
    LET on == [i \in 1..7 |-> q[MainFlagColumns[i]] = 1]
    IN  Piece(names, on, 1) \o Piece(names, on, 2) \o Piece(names, on, 3)
            \o Piece(names, on, 4) \o Piece(names, on, 5) \o Piece(names, on, 6)
            \o Piece(names, on, 7)

\* Every record of final_df comes from a row of qa_data with the same text.
MainTopicIs(names) ==
    Processed =>
        \A m \in DOMAIN final_df : \E k \in DOMAIN qa_data :
            /\ qa_data[k]["CUSTOMER_RESPONSE"] = final_df[m].CUSTOMER_RESPONSE
            /\ final_df[m].main_topic = ExpectedMainTopic(names, qa_data[k])

\* C7 as amended: the names joined are the code's column names, which spell two
\* of the seven 'Health_benefits_coverage' and 'RCC_quality'.
C7_MainTopicJoinsSetFlags == MainTopicIs(MainFlagColumns)

\* C7 as claimed: the names joined are health_benefits_coverage, ..., rcc_quality,
\* ..., tech_issues.
C7_MainTopicJoinsSetFlagsAsClaimed == MainTopicIs(MainFlagNamesAsClaimed)

\* Two main flags set, and a sub-category flag set beside them.
C7_Witness ==
    /\ Processed
    /\ \E k \in DOMAIN qa_data :
          /\ Cardinality({i \in 1..7 : qa_data[k][MainFlagColumns[i]] = 1}) >= 2
          /\ qa_data[k]["Medical_Staff"] = 1

(***************************************************************************)
(* C8.  sub_topic is "generic" exactly when the four sub-category flags    *)
(* are all 0; otherwise it is the ", "-joined names of the set             *)
(* sub-category flags, and never empty.                                    *)
(***************************************************************************)
SubFlagColumns ==
    << "Medical_Staff", "Receptionist_Front_Desk", "Facility Quality",
       "Medication_Quality" >>

ExpectedSubTopic(q) ==
    LET on == [i \in 1..4 |-> q[SubFlagColumns[i]] = 1]
    IN  Piece(SubFlagColumns, on, 1) \o Piece(SubFlagColumns, on, 2)
            \o Piece(SubFlagColumns, on, 3) \o Piece(SubFlagColumns, on, 4)

C8_GenericIffNoSubFlag ==
    Processed =>
        \A m \in DOMAIN final_df : \E k \in DOMAIN qa_data :
            LET q == qa_data[k]
                none == \A i \in 1..4 : q[SubFlagColumns[i]] = 0
            IN  /\ q["CUSTOMER_RESPONSE"] = final_df[m].CUSTOMER_RESPONSE
                /\ final_df[m].sub_topic = "generic" <=> none
                /\ final_df[m].sub_topic # ""
                /\ ~none => final_df[m].sub_topic = ExpectedSubTopic(q)

C8_Witness ==
    /\ Processed
    /\ \E m \in DOMAIN final_df : final_df[m].sub_topic = "generic"
    /\ \E k \in DOMAIN qa_data : \A i \in 1..4 : qa_data[k][SubFlagColumns[i]] = 0

(***************************************************************************)
(* C9.  A label of the threshold table missing from the taxonomy ends the  *)
(* run before any output write: save_results is never reached and the      *)
(* destination table stays as it was.                                      *)
(***************************************************************************)
NothingWritten ==
    /\ final_nps_op = PriorTable
    /\ \A r \in DOMAIN outputs : outputs[r] = <<>>
    /\ pc # "save"

\* C9 as amended: nothing is ever written; a run over at least one input row
\* ends with KeyError in process_classifications of its first chunk; a run over
\* no input row executes no chunk and returns without an error.
C9_MissingLabelNoWrite ==
    ~LabelsComplete =>
        /\ NothingWritten
        /\ pc \in {"classify", "process"} => start = 0
        /\ pc = "process" => RunStmts(detailed_scores_df).error = "KeyError"
        /\ error.in = "process_classifications" => error.type = "KeyError"
        /\ error.in = "classify_responses" =>
              (error.type = "AttributeError" /\ ~NoNullText)
        /\ error.in # "save_results"
        /\ pc = "done" => Len(nps_data_qa) = 0

\* C9 as claimed: for every input, nothing is written and the run does not
\* return normally.
C9_MissingLabelAlwaysAborts ==
    ~LabelsComplete => (NothingWritten /\ pc # "done")

\* The run has ended in KeyError although a row of the chunk was scored.
C9_Witness ==
    /\ ~LabelsComplete
    /\ pc = "aborted"
    /\ error = Raised("KeyError", "process_classifications")
    /\ \E i \in ChunkIdx : Succeeds(i)

(***************************************************************************)
(* C10.  Idempotence: run_in_chunks entered again on the same input rows   *)
(* with the same classifier behaviour produces, chunk by chunk, the same   *)
(* final_df (same records, same order, same topics) as the first time,     *)
(* although process_classifications has overwritten score columns of       *)
(* self.detailed_scores_df with flags.                                     *)
(***************************************************************************)
SameBatch(r1, r2) == batches[r1] = batches[r2]

C10_RerunSameRecords ==
    \A r1, r2 \in 1..run : (r1 < r2 /\ SameBatch(r1, r2)) =>
        /\ \A k \in DOMAIN outputs[r1] \cap DOMAIN outputs[r2] :
              outputs[r2][k] = outputs[r1][k]
        /\ (r2 = run /\ Processed /\ Len(outputs[r1]) > Len(outputs[run])) =>
              final_df = outputs[r1][Len(outputs[run]) + 1]
        /\ (r2 = run /\ pc = "aborted" /\ LabelingRaised) =>
              Len(outputs[r1]) =< Len(outputs[run])

\* The second run is complete, and the frame of its last chunk holds a row
\* whose 'clinic related' score (above 0.95, not above 0.99) was overwritten
\* by the flag 0 after provider_quality had been derived from it.
C10_Witness ==
    /\ run = 2
    /\ pc = "done"
    /\ SameBatch(1, 2)
    /\ Len(outputs[2]) >= 1
    /\ Len(outputs[1]) = Len(outputs[2])
    /\ \E i \in DOMAIN nps_data_qa, k \in DOMAIN detailed_scores_df :
          /\ Succeeds(i)
          /\ RawScores(i)["clinic related"] > 95
          /\ detailed_scores_df[k]["CUSTOMER_RESPONSE"] = TextOf(i)
          /\ detailed_scores_df[k]["clinic related"] = 0
          /\ detailed_scores_df[k]["provider_quality"] = 1

(***************************************************************************)
(* C11.  Later overwrite rules win.                                        *)
(***************************************************************************)
\* The rows a frame row goes through: the row before the k-th statement of
\* lines 119-212, then the row after each statement from the k-th on.
RECURSIVE StmtTrace(_, _)
StmtTrace(r, k) ==
    IF k > Len(Stmts) \/ DOMAIN r = {} THEN <<r>>
    ELSE <<r>> \o StmtTrace(Exec(Stmts[k], r), k + 1)

\* The statements of the overwrite rules: line 166 onwards.
Phase2 == {k \in DOMAIN Stmts : Stmts[k] >= 166}

VisitOrGym(text) == Mentions(text, "during my visit") \/ Mentions(text, "gym")

\* No statement of the overwrite rules takes provider_quality from 1 to 0 on
\* the row r of raw scores.
NeverResetsQuality(r) ==
    LET t == StmtTrace(r, 1)
    IN  \A k \in Phase2 :
           t[k]["provider_quality"] = 1 => t[k + 1]["provider_quality"] = 1

\* C11: once process_classifications has returned, every row of the frame
\* whose text contains "during my visit" or "gym" has provider_quality = 1
\* and RCC_quality = 0, whatever the scores are and whether or not the text
\* also contains "customer service"; and on every frame about to be
\* processed, no statement from line 166 on takes provider_quality from 1
\* to 0.
C11_LaterRulesWin ==
    /\ Processed =>
          \A k \in DOMAIN detailed_scores_df :
             VisitOrGym(StrOf(detailed_scores_df[k]["CUSTOMER_RESPONSE"])) =>
                /\ detailed_scores_df[k]["provider_quality"] = 1
                /\ detailed_scores_df[k]["RCC_quality"] = 0
                /\ qa_data[k]["provider_quality"] = 1
                /\ qa_data[k]["RCC_quality"] = 0
    /\ (pc = "process" /\ LabelsComplete) =>
          \A k \in DOMAIN detailed_scores_df :
             NeverResetsQuality(detailed_scores_df[k])

\* A processed response with "gym" and "customer service" in its text whose
\* call-center score is above its threshold, so that both the threshold rule
\* and rule 3 had set RCC_quality before rule 7 cleared it.
C11_Witness ==
    /\ Processed
    /\ Len(detailed_scores_df) = 1
    /\ Mentions(StrOf(detailed_scores_df[1]["CUSTOMER_RESPONSE"]), "gym")
    /\ Mentions(StrOf(detailed_scores_df[1]["CUSTOMER_RESPONSE"]), "customer service")
    /\ RawScores(1)["call center agents"] > 90
    /\ detailed_scores_df[1]["RCC_quality"] = 0
    /\ detailed_scores_df[1]["provider_quality"] = 1

(***************************************************************************)
(* C12.  One record per processed response.                                *)
(***************************************************************************)
\* C12: once process_classifications has returned, final_df holds exactly one
\* record for each row of the chunk with non-blank text whose classifier call
\* returned, in input order and with that row's text and type_service, none
\* for a row whose call raised, and so no more records than the chunk has
\* rows, also when rows of the chunk share their text.
C12_OneRecordPerProcessedRow ==
    Processed =>
        /\ Len(final_df) = Len(GoodIdx)
        /\ \A k \in DOMAIN GoodIdx :
              k \in DOMAIN final_df =>
                 /\ final_df[k].CUSTOMER_RESPONSE = TextOf(GoodIdx[k])
                 /\ final_df[k].type_service = nps_data_qa[GoodIdx[k]]["type_service"]
        /\ Len(final_df) <= ChunkHi - ChunkLo + 1

====
